---- MODULE Spec2Model ----
(***************************************************************************)
(* Conway's Game of Life on a bounded grid with incrementally maintained   *)
(* neighbour counts (simulation/src/main.rs).                              *)
(*                                                                         *)
(* A Cell is one byte: bit 0 is the alive flag, bits 1-4 hold the stored   *)
(* neighbour count.  The World keeps the authoritative grid `cells` and    *)
(* the scratch copy `temp_cells`, both row-major.                          *)
(*                                                                         *)
(* Two specifications:                                                     *)
(*   Spec      a World is constructed (World::new or World::random, one    *)
(*             rng sample per step) and then advanced by next_generation;  *)
(*   SpecCell  a raw byte is turned into a Cell by Cell::try_from and the  *)
(*             Cell methods are applied to it.                             *)
(***************************************************************************)
EXTENDS Integers, Sequences, FiniteSets

\* ------------------------------------------------------------------ bounds
MaxSide == 4       \* largest width and largest height of a board
MaxCells == 12     \* largest number of cells of a board

\* --------------------------------------------------------- program constants
ON_COLOUR == 1
OFF_COLOUR == 0
NC_MAX == 8
NC_MIN == 0
CELL_MAX == 31
CELL_MIN == 0

FST == ON_COLOUR
SND == OFF_COLOUR

VARIABLES
  width, height,      \* World.width, World.height
  cells,              \* World.cells: index i*width+j -> byte
  temp_cells,         \* World.temp_cells
  pc,                 \* "seeding": in the constructor; "running": in main's
                      \* loop; "cell": no World, a Cell is under test
  init_length,        \* World::random's init_length (0 for World::new)
  drawn,              \* samples World::random has drawn so far
  sampled,            \* positions the rng has returned inside World::random
  notes,              \* draw_pixel calls of the latest next_generation, in order
  overflow_checks,    \* TRUE: build panics on integer overflow; FALSE: it wraps
  panicked,           \* the process has panicked
  byte,               \* SpecCell: the raw byte given to Cell::try_from
  cell,               \* SpecCell: the Cell under test (-1: none)
  before,             \* SpecCell: the Cell before the latest method call
  op,                 \* SpecCell: the latest call
  ret                 \* SpecCell: what the latest call returned

vars == <<width, height, cells, temp_cells, pc, init_length, drawn, sampled,
          notes, overflow_checks, panicked, byte, cell, before, op, ret>>

worldVars == <<width, height, cells, temp_cells, pc, init_length, drawn,
               sampled, notes, panicked>>
cellVars == <<byte, cell, before, op, ret>>

\* ------------------------------------------------------------ u8 arithmetic
RECURSIVE BitAnd(_, _)
BitAnd(a, b) ==
  IF a = 0 \/ b = 0 THEN 0
  ELSE (a % 2) * (b % 2) + 2 * BitAnd(a \div 2, b \div 2)

RECURSIVE BitOr(_, _)
BitOr(a, b) ==
  IF a = 0 THEN b
  ELSE IF b = 0 THEN a
  ELSE (IF a % 2 = 1 \/ b % 2 = 1 THEN 1 ELSE 0) + 2 * BitOr(a \div 2, b \div 2)

\* x << 1 on a u8: the bit shifted out is lost
Shl1(x) == (2 * x) % 256

\* ------------------------------------------------------------ NeighbourCount
\* Result<NeighbourCount, String>
NeighbourCount_try_from(b) ==
  IF NC_MIN <= b /\ b <= NC_MAX THEN [ok |-> TRUE, val |-> b]
  ELSE [ok |-> FALSE, val |-> b]

\* ---------------------------------------------------------------------- Cell
is_alive(c) == BitAnd(c, 1) # 0

\* variant: every dead cell counts as empty
is_empty_dead(c) == BitAnd(c, 1) = 0

is_empty(c) == c = 0

set_alive(c) == BitOr(c, 1)

\* variant: the mask is 0x1 instead of !0x1
set_dead_mask(c) == BitAnd(c, 1)

set_dead(c) == BitAnd(c, 254)

\* the count field and whether the unwrap succeeds
neighbours(c) == NeighbourCount_try_from(BitAnd(c, 30) \div 2)

\* variant: the ceiling test is <= instead of <
try_increment_le(c) ==
  LET n == neighbours(c) IN
  IF ~n.ok THEN [cell |-> c, ret |-> FALSE, panic |-> TRUE]
  ELSE IF n.val <= NC_MAX
    THEN [cell |-> BitOr(BitAnd(c, 225), Shl1(n.val + 1)), ret |-> TRUE, panic |-> FALSE]
    ELSE [cell |-> c, ret |-> FALSE, panic |-> FALSE]

\* variant: the count is raised whatever it is
try_increment_unguarded(c) ==
  LET n == neighbours(c) IN
  IF ~n.ok THEN [cell |-> c, ret |-> FALSE, panic |-> TRUE]
  ELSE [cell |-> BitOr(BitAnd(c, 225), Shl1(n.val + 1)), ret |-> TRUE, panic |-> FALSE]

\* [cell: the Cell afterwards, ret: the bool returned, panic: the call panicked]
try_increment(c) ==
  LET n == neighbours(c) IN
  IF ~n.ok THEN [cell |-> c, ret |-> FALSE, panic |-> TRUE]
  ELSE IF n.val < NC_MAX
    THEN [cell |-> BitOr(BitAnd(c, 225), Shl1(n.val + 1)), ret |-> TRUE, panic |-> FALSE]
    ELSE [cell |-> c, ret |-> FALSE, panic |-> FALSE]

\* variant: the test is against the floor, neighbour_count > MIN
try_decrement_floor(c, checks) ==
  LET n == neighbours(c) IN
  IF ~n.ok THEN [cell |-> c, ret |-> FALSE, panic |-> TRUE]
  ELSE IF n.val > NC_MIN
    THEN [cell |-> BitOr(BitAnd(c, 225), Shl1(n.val - 1)), ret |-> TRUE, panic |-> FALSE]
    ELSE [cell |-> c, ret |-> FALSE, panic |-> FALSE]

\* neighbour_count - 1 on a u8 holding 0 panics when the build checks overflow
\* and wraps to 255 when it does not
try_decrement(c, checks) ==
  LET n == neighbours(c) IN
  IF ~n.ok THEN [cell |-> c, ret |-> FALSE, panic |-> TRUE]
  ELSE IF n.val < NC_MAX
    THEN IF n.val = 0 /\ checks
           THEN [cell |-> c, ret |-> FALSE, panic |-> TRUE]
           ELSE [cell |-> BitOr(BitAnd(c, 225), Shl1((n.val + 255) % 256)),
                 ret |-> TRUE, panic |-> FALSE]
    ELSE [cell |-> c, ret |-> FALSE, panic |-> FALSE]

\* Result<Cell, String>
Cell_try_from(b) ==
  IF CELL_MIN <= b /\ b <= CELL_MAX THEN [ok |-> TRUE, val |-> b]
  ELSE [ok |-> FALSE, val |-> b]

\* the Cell methods tabulated over every byte
Bytes == 0..255
AliveTab == [c \in Bytes |-> is_alive(c)]
SetAliveTab == [c \in Bytes |-> set_alive(c)]
SetDeadTab == [c \in Bytes |-> set_dead(c)]
NeighboursTab == [c \in Bytes |-> neighbours(c)]
IncTab == [c \in Bytes |-> try_increment(c)]
DecTab == [k \in BOOLEAN |-> [c \in Bytes |-> try_decrement(c, k)]]

\* --------------------------------------------------------------------- World
Idx(i, j) == i * width + j
Positions == (0..(height - 1)) \X (0..(width - 1))
CellCount == width * height

\* variant: positions wrap to the opposite side
is_valid_position_torus(neighbour_i, neighbour_j) ==
  [some |-> TRUE, i |-> neighbour_i % height, j |-> neighbour_j % width]

\* Option<(usize, usize)>
is_valid_position(neighbour_i, neighbour_j) ==
  IF \/ neighbour_i < 0
     \/ neighbour_i >= height
     \/ neighbour_j < 0
     \/ neighbour_j >= width
  THEN [some |-> FALSE, i |-> 0, j |-> 0]
  ELSE [some |-> TRUE, i |-> neighbour_i, j |-> neighbour_j]

\* the (i_offset, j_offset) pairs in the order the nested loops visit them,
\* the pair (0, 0) skipped
Offsets ==
  LET o == <<-1, 0, 1>>
      all == [k \in 1..9 |-> <<o[((k - 1) \div 3) + 1], o[((k - 1) % 3) + 1]>>]
  IN SelectSeq(all, LAMBDA p : ~(p[1] = 0 /\ p[2] = 0))

\* the neighbour loop of set_cell (inc) and clear_cell (~inc) from offset k on;
\* st = [cells, panic, touched: the indices try_increment / try_decrement was
\* applied to, before: the bytes it was applied to, refused: the indices where
\* it returned false]
RECURSIVE update_neighbours(_, _, _, _, _)
update_neighbours(st, i, j, k, inc) ==
  IF k > Len(Offsets) \/ st.panic THEN st
  ELSE
    LET p == is_valid_position(i + Offsets[k][1], j + Offsets[k][2]) IN
    IF ~p.some THEN update_neighbours(st, i, j, k + 1, inc)
    ELSE
      LET x == p.i * width + p.j
          r == IF inc THEN IncTab[st.cells[x]] ELSE DecTab[overflow_checks][st.cells[x]]
      IN update_neighbours(
           [cells |-> [st.cells EXCEPT ![x] = r.cell],
            panic |-> r.panic,
            touched |-> Append(st.touched, x),
            before |-> Append(st.before, st.cells[x]),
            refused |-> IF r.ret THEN st.refused ELSE Append(st.refused, x)],
           i, j, k + 1, inc)

\* variant: the cell is set alive and no neighbour is told
set_cell_alive_only(cs, i, j) ==
  [cells |-> [cs EXCEPT ![Idx(i, j)] = SetAliveTab[@]], panic |-> FALSE,
   touched |-> <<>>, before |-> <<>>, refused |-> <<>>]

set_cell(cs, i, j) ==
  update_neighbours(
    [cells |-> [cs EXCEPT ![Idx(i, j)] = SetAliveTab[@]], panic |-> FALSE,
     touched |-> <<>>, before |-> <<>>, refused |-> <<>>],
    i, j, 1, TRUE)

\* variant: the cell is set dead and no neighbour is told
clear_cell_dead_only(cs, i, j) ==
  [cells |-> [cs EXCEPT ![Idx(i, j)] = SetDeadTab[@]], panic |-> FALSE,
   touched |-> <<>>, before |-> <<>>, refused |-> <<>>]

clear_cell(cs, i, j) ==
  update_neighbours(
    [cells |-> [cs EXCEPT ![Idx(i, j)] = SetDeadTab[@]], panic |-> FALSE,
     touched |-> <<>>, before |-> <<>>, refused |-> <<>>],
    i, j, 1, FALSE)

cell_state(cs, i, j) == IF AliveTab[cs[Idx(i, j)]] THEN 1 ELSE 0

\* variant: a death is drawn in the on colour
apply_rule_on_colour(st, curr_cell, i, j) ==
  LET n == NeighboursTab[curr_cell]
      count == n.val
  IN
  IF ~n.ok THEN [st EXCEPT !.panic = TRUE]
  ELSE IF AliveTab[curr_cell]
    THEN IF count # 2 /\ count # 3
           THEN LET r == clear_cell(st.cells, i, j) IN
                [cells |-> r.cells,
                 notes |-> IF r.panic THEN st.notes ELSE Append(st.notes, <<i, j, FST>>),
                 panic |-> r.panic,
                 calls |-> Append(st.calls, [set |-> FALSE, i |-> i, j |-> j,
                                             pre |-> st.cells, r |-> r])]
           ELSE st
    ELSE IF count = 3
           THEN LET r == set_cell(st.cells, i, j) IN
                [cells |-> r.cells,
                 notes |-> IF r.panic THEN st.notes ELSE Append(st.notes, <<i, j, FST>>),
                 panic |-> r.panic,
                 calls |-> Append(st.calls, [set |-> TRUE, i |-> i, j |-> j,
                                             pre |-> st.cells, r |-> r])]
           ELSE st

\* the rule applied to the non-empty snapshot cell curr_cell at (i, j):
\* clear_cell or set_cell on the authoritative grid and the draw_pixel call;
\* st = [cells, notes, panic, calls: the clear_cell (set = FALSE) and set_cell
\* (set = TRUE) calls so far, each with its position, the grid it was called on
\* (pre) and its result (r)]
apply_rule(st, curr_cell, i, j) ==
  LET n == NeighboursTab[curr_cell]
      count == n.val
  IN
  IF ~n.ok THEN [st EXCEPT !.panic = TRUE]
  ELSE IF AliveTab[curr_cell]
    THEN IF count # 2 /\ count # 3
           THEN LET r == clear_cell(st.cells, i, j) IN
                [cells |-> r.cells,
                 notes |-> IF r.panic THEN st.notes ELSE Append(st.notes, <<i, j, SND>>),
                 panic |-> r.panic,
                 calls |-> Append(st.calls, [set |-> FALSE, i |-> i, j |-> j,
                                             pre |-> st.cells, r |-> r])]
           ELSE st
    ELSE IF count = 3
           THEN LET r == set_cell(st.cells, i, j) IN
                [cells |-> r.cells,
                 notes |-> IF r.panic THEN st.notes ELSE Append(st.notes, <<i, j, FST>>),
                 panic |-> r.panic,
                 calls |-> Append(st.calls, [set |-> TRUE, i |-> i, j |-> j,
                                             pre |-> st.cells, r |-> r])]
           ELSE st

\* variant: the cell is read from the grid being updated, not the snapshot
scan_step_in_place(st, tmp, i, j) ==
  LET curr_cell == st.cells[Idx(i, j)] IN
  IF is_empty(curr_cell) THEN st
  ELSE
    LET n == NeighboursTab[curr_cell]
        count == n.val
    IN
    IF ~n.ok THEN [st EXCEPT !.panic = TRUE]
    ELSE IF AliveTab[curr_cell]
      THEN IF count # 2 /\ count # 3
             THEN LET r == clear_cell(st.cells, i, j) IN
                  [cells |-> r.cells,
                   notes |-> IF r.panic THEN st.notes ELSE Append(st.notes, <<i, j, SND>>),
                   panic |-> r.panic,
                   calls |-> Append(st.calls, [set |-> FALSE, i |-> i, j |-> j,
                                               pre |-> st.cells, r |-> r])]
             ELSE st
      ELSE IF count = 3
             THEN LET r == set_cell(st.cells, i, j) IN
                  [cells |-> r.cells,
                   notes |-> IF r.panic THEN st.notes ELSE Append(st.notes, <<i, j, FST>>),
                   panic |-> r.panic,
                   calls |-> Append(st.calls, [set |-> TRUE, i |-> i, j |-> j,
                                               pre |-> st.cells, r |-> r])]
             ELSE st

\* one iteration of the while loop, at (i, j); tmp is the snapshot
scan_step(st, tmp, i, j) ==
  LET curr_cell == tmp[Idx(i, j)] IN
  IF is_empty(curr_cell) THEN st
  ELSE apply_rule(st, curr_cell, i, j)

\* the two loops of next_generation from row-major position k on
RECURSIVE scan(_, _, _)
scan(st, tmp, k) ==
  IF k >= CellCount \/ st.panic THEN st
  ELSE scan(scan_step(st, tmp, k \div width, k % width), tmp, k + 1)

\* next_generation on the grid cs: the snapshot, then the scan
next_generation(cs) ==
  scan([cells |-> cs, notes |-> <<>>, panic |-> FALSE, calls |-> <<>>], cs, 0)

\* variant: half the cells, rounded up
random_init_length_up(w, h) == (h * w + 1) \div 2

\* World::random's init_length
random_init_length(w, h) == (h * w) \div 2

\* ------------------------------------------------------------------- actions
Dims == {d \in (1..MaxSide) \X (1..MaxSide) : d[1] * d[2] <= MaxCells}

NoCell == -1

CellIdle ==
  /\ byte = 0 /\ cell = NoCell /\ before = NoCell /\ op = "none" /\ ret = "none"

\* World::new(width, height), and World::random up to its sampling loop
Init ==
  /\ \E d \in Dims : width = d[1] /\ height = d[2]
  /\ cells = [x \in 0..(width * height - 1) |-> 0]
  /\ temp_cells = [x \in 0..(width * height - 1) |-> 0]
  /\ pc = "seeding"
  /\ init_length \in {0, random_init_length(width, height)}
  /\ drawn = 0
  /\ sampled = {}
  /\ notes = <<>>
  /\ overflow_checks \in BOOLEAN
  /\ panicked = FALSE
  /\ CellIdle

\* variant: set_cell is called without looking at cell_state
Sample_unchecked(i, j) ==
  /\ pc = "seeding"
  /\ ~panicked
  /\ drawn < init_length
  /\ LET r == set_cell(cells, i, j)
     IN /\ cells' = r.cells
        /\ panicked' = r.panic
  /\ drawn' = drawn + 1
  /\ sampled' = sampled \cup {<<i, j>>}
  /\ UNCHANGED <<width, height, temp_cells, pc, init_length, notes,
                 overflow_checks>>
  /\ UNCHANGED cellVars

\* one iteration of World::random's loop, the rng returning (i, j)
Sample(i, j) ==
  /\ pc = "seeding"
  /\ ~panicked
  /\ drawn < init_length
  /\ LET r == IF cell_state(cells, i, j) = 0 THEN set_cell(cells, i, j)
              ELSE [cells |-> cells, panic |-> FALSE]
     IN /\ cells' = r.cells
        /\ panicked' = r.panic
  /\ drawn' = drawn + 1
  /\ sampled' = sampled \cup {<<i, j>>}
  /\ UNCHANGED <<width, height, temp_cells, pc, init_length, notes,
                 overflow_checks>>
  /\ UNCHANGED cellVars

\* one iteration of main's loop: World::next_generation(canvas) on the
\* constructed world; the constructor's locals are gone
NextGeneration ==
  /\ ~panicked
  /\ drawn = init_length
  /\ LET r == next_generation(cells) IN
       /\ temp_cells' = cells
       /\ cells' = r.cells
       /\ notes' = r.notes
       /\ panicked' = r.panic
  /\ pc' = "running"
  /\ sampled' = {}
  /\ UNCHANGED <<width, height, init_length, drawn, overflow_checks>>
  /\ UNCHANGED cellVars

Next ==
  \/ \E p \in Positions : Sample(p[1], p[2])
  \/ NextGeneration

Spec == Init /\ [][Next]_vars

\* ------------------------------------------------------- the Cell on its own
NoWorld ==
  /\ width = 1 /\ height = 1
  /\ cells = [x \in 0..0 |-> 0]
  /\ temp_cells = [x \in 0..0 |-> 0]
  /\ pc = "cell"
  /\ init_length = 0 /\ drawn = 0 /\ sampled = {} /\ notes = <<>>

InitCell ==
  /\ NoWorld
  /\ byte \in Bytes
  /\ cell = NoCell /\ before = NoCell /\ op = "none" /\ ret = "none"
  /\ overflow_checks \in BOOLEAN
  /\ panicked = FALSE

Frame == UNCHANGED <<width, height, cells, temp_cells, pc, init_length, drawn,
                     sampled, notes, overflow_checks, byte>>

BoolStr(b) == IF b THEN "true" ELSE "false"

\* Cell::try_from(byte)
CellTryFrom ==
  /\ op = "none"
  /\ LET r == Cell_try_from(byte) IN
       /\ cell' = IF r.ok THEN r.val ELSE NoCell
       /\ ret' = IF r.ok THEN "Ok" ELSE "Err"
  /\ op' = "try_from"
  /\ before' = NoCell
  /\ panicked' = FALSE
  /\ Frame

\* a method call on the constructed Cell; r = [cell, ret, panic]
CellCall(name, r) ==
  /\ cell # NoCell
  /\ ~panicked
  /\ op' = name
  /\ before' = cell
  /\ cell' = r.cell
  /\ ret' = IF r.panic THEN "panic" ELSE r.ret
  /\ panicked' = r.panic
  /\ Frame

CellTryIncrement ==
  cell # NoCell /\
  LET r == try_increment(cell) IN
  CellCall("try_increment", [cell |-> r.cell, ret |-> BoolStr(r.ret), panic |-> r.panic])

CellTryDecrement ==
  cell # NoCell /\
  LET r == try_decrement(cell, overflow_checks) IN
  CellCall("try_decrement", [cell |-> r.cell, ret |-> BoolStr(r.ret), panic |-> r.panic])

CellSetAlive ==
  cell # NoCell /\
  CellCall("set_alive", [cell |-> set_alive(cell), ret |-> "unit", panic |-> FALSE])

CellSetDead ==
  cell # NoCell /\
  CellCall("set_dead", [cell |-> set_dead(cell), ret |-> "unit", panic |-> FALSE])

CellNeighbours ==
  cell # NoCell /\
  LET n == neighbours(cell) IN
  CellCall("neighbours", [cell |-> cell, ret |-> "count", panic |-> ~n.ok])

NextCell ==
  \/ CellTryFrom
  \/ CellTryIncrement
  \/ CellTryDecrement
  \/ CellSetAlive
  \/ CellSetDead
  \/ CellNeighbours

SpecCell == InitCell /\ [][NextCell]_vars

\* ------------------------------------------------- reference notions (claims)
Abs(x) == IF x < 0 THEN -x ELSE x

\* q is one of the up-to-8 grid-adjacent positions of p
Adjacent(p, q) == p # q /\ Abs(p[1] - q[1]) <= 1 /\ Abs(p[2] - q[2]) <= 1

AliveAt(cs, p) == cs[p[1] * width + p[2]] % 2 = 1

StoredCount(cs, p) == (cs[p[1] * width + p[2]] \div 2) % 16

\* alive cells among the in-bounds grid-adjacent positions of p
ActualCount(cs, p) ==
  Cardinality({q \in Positions : Adjacent(p, q) /\ AliveAt(cs, q)})

AliveSet(cs) == {p \in Positions : AliveAt(cs, p)}

\* the B3/S23 rule
LifeRule(alive, n) == IF alive THEN n \in {2, 3} ELSE n = 3

Constructed == pc \in {"seeding", "running"} /\ drawn = init_length /\ ~panicked

\* ---------------------------------------------------------------- claims
\* C1: once the World is constructed, and after every next_generation call,
\* every cell's stored neighbour count equals the number of alive cells among
\* its in-bounds grid-adjacent positions in the authoritative grid.
C1_StoredCountIsActual ==
  Constructed =>
    \A p \in Positions : StoredCount(cells, p) = ActualCount(cells, p)

\* C2: after a next_generation call every cell's alive flag is the B3/S23 rule
\* applied to its alive flag and its actual number of alive in-bounds
\* neighbours before the call (temp_cells holds the grid before the call).
C2_ReferenceLifeStep ==
  (pc = "running" /\ ~panicked) =>
    \A p \in Positions :
      AliveAt(cells, p) = LifeRule(AliveAt(temp_cells, p), ActualCount(temp_cells, p))

\* C3: try_decrement on a Cell whose stored count c is in 0..8 lowers the count
\* by one, keeps the alive bit and returns true if c > 0; leaves the Cell
\* unchanged and returns false if c = 0; it never panics.
C3_SaturatingDecrement ==
  (op = "try_decrement" /\ before <= CELL_MAX /\ (before \div 2) % 16 <= NC_MAX) =>
    IF (before \div 2) % 16 > 0
      THEN cell = before - 2 /\ ret = "true"
      ELSE cell = before /\ ret = "false"

\* C4: Cell::try_from fails for every byte whose count field (bits 1-4) exceeds
\* 8, and neighbours() succeeds on every Cell try_from returned.
C4_TryFromRejectsBadCount ==
  /\ (op = "try_from" /\ (byte \div 2) % 16 > NC_MAX) => ret = "Err"
  /\ (op = "try_from" /\ ret = "Ok") => neighbours(cell).ok

\* the positions in row-major order
RowMajor == [k \in 1..CellCount |-> <<(k - 1) \div width, (k - 1) % width>>]

\* the draw_pixel calls a call taking the grid from cs0 to cs1 owes: one per
\* cell whose alive flag differs, in row-major order
ExpectedNotes(cs0, cs1) ==
  LET changed == SelectSeq(RowMajor, LAMBDA p : AliveAt(cs0, p) # AliveAt(cs1, p))
  IN [k \in 1..Len(changed) |->
        <<changed[k][1], changed[k][2],
          IF AliveAt(cs1, changed[k]) THEN ON_COLOUR ELSE OFF_COLOUR>>]

\* C5: a next_generation call invokes draw_pixel exactly once for every cell
\* whose alive flag differs before and after the call, with the on colour for
\* a birth and the off colour for a death, for no other cell, in row-major
\* order of the positions.
C5_NotificationsExactInOrder ==
  (pc = "running" /\ ~panicked) => notes = ExpectedNotes(temp_cells, cells)

\* a call that reported a birth and a death
C5_Witness ==
  /\ pc = "running" /\ ~panicked
  /\ \E a \in 1..Len(notes) : notes[a][3] = ON_COLOUR
  /\ \E a \in 1..Len(notes) : notes[a][3] = OFF_COLOUR

\* the empty 3x3 grid and the horizontal blinker set_cell builds on it
Empty == [x \in 0..(CellCount - 1) |-> 0]
HBlinker == {<<1, 0>>, <<1, 1>>, <<1, 2>>}
VBlinker == {<<0, 1>>, <<1, 1>>, <<2, 1>>}
HBoard == set_cell(set_cell(set_cell(Empty, 1, 0).cells, 1, 1).cells, 1, 2).cells

\* C6: on a 3x3 board with exactly (1,0),(1,1),(1,2) set alive by set_cell, one
\* next_generation call yields exactly (0,1),(1,1),(2,1) alive with the four
\* notifications on (0,1), off (1,0), off (1,2), on (2,1) and no other, and the
\* call after it yields exactly (1,0),(1,1),(1,2) alive again.
C6_Blinker ==
  (pc = "running" /\ ~panicked /\ width = 3 /\ height = 3) =>
    /\ temp_cells = HBoard =>
         /\ AliveSet(cells) = VBlinker
         /\ Len(notes) = 4
         /\ {notes[a] : a \in 1..Len(notes)} =
              {<<0, 1, ON_COLOUR>>, <<2, 1, ON_COLOUR>>,
               <<1, 0, OFF_COLOUR>>, <<1, 2, OFF_COLOUR>>}
    /\ temp_cells = next_generation(HBoard).cells => AliveSet(cells) = HBlinker

\* the second call on the blinker has returned
C6_Witness ==
  /\ pc = "running" /\ ~panicked /\ width = 3 /\ height = 3
  /\ temp_cells = next_generation(HBoard).cells
  /\ AliveSet(temp_cells) = VBlinker
  /\ AliveSet(cells) = HBlinker

\* C7: on a board whose only alive cell is at (i,j), one next_generation call
\* emits exactly one notification, the off colour at (i,j), and leaves every
\* cell dead with stored count 0.
C7_IsolatedCellDies ==
  (pc = "running" /\ ~panicked) =>
    \A p \in Positions :
      AliveSet(temp_cells) = {p} =>
        /\ notes = <<<<p[1], p[2], OFF_COLOUR>>>>
        /\ \A x \in 0..(CellCount - 1) : cells[x] = 0

\* next_generation with the is_empty test left out
RECURSIVE scan_noskip(_, _, _)
scan_noskip(st, tmp, k) ==
  IF k >= CellCount \/ st.panic THEN st
  ELSE scan_noskip(apply_rule(st, tmp[k], k \div width, k % width), tmp, k + 1)

next_generation_noskip(cs) ==
  scan_noskip([cells |-> cs, notes |-> <<>>, panic |-> FALSE, calls |-> <<>>], cs, 0)

\* C8: a cell whose snapshot value is 0 is dead after the call, and the call
\* without the is_empty test yields the same grid (alive flags and stored
\* counts) and the same notification sequence.
C8_SkipIsSound ==
  (pc = "running" /\ ~panicked) =>
    /\ \A p \in Positions : temp_cells[Idx(p[1], p[2])] = 0 => ~AliveAt(cells, p)
    /\ LET r == next_generation_noskip(temp_cells) IN
         /\ ~r.panic
         /\ r.cells = cells
         /\ r.notes = notes

\* a call that skipped an empty cell and changed another
C8_Witness ==
  /\ pc = "running" /\ ~panicked
  /\ \E x \in 0..(CellCount - 1) : temp_cells[x] = 0
  /\ Len(notes) >= 2

\* C9: World::random draws exactly floor(width*height/2) samples, and the
\* number of alive cells it returns equals the number of distinct sampled
\* positions: at most floor(width*height/2), exactly that if no sample
\* repeats, strictly less if one does.
C9_SeedingUnderFill ==
  pc = "seeding" =>
    /\ init_length \in {0, (width * height) \div 2}
    /\ drawn <= init_length
    /\ drawn = init_length =>
         /\ Cardinality(AliveSet(cells)) = Cardinality(sampled)
         /\ Cardinality(AliveSet(cells)) <= (width * height) \div 2
         /\ Cardinality(sampled) = drawn => Cardinality(AliveSet(cells)) = init_length
         /\ Cardinality(sampled) < drawn => Cardinality(AliveSet(cells)) < init_length

\* World::random returned a board after a repeated sample
C9_Witness ==
  /\ pc = "seeding" /\ init_length >= 3 /\ drawn = init_length
  /\ Cardinality(sampled) < drawn
  /\ Cardinality(AliveSet(cells)) = Cardinality(sampled)
  /\ Cardinality(AliveSet(cells)) >= 2

\* the row-major indices of the in-bounds grid-adjacent positions of (i, j)
AdjacentIdx(i, j) ==
  {q[1] * width + q[2] : q \in {q \in Positions : Adjacent(<<i, j>>, q)}}

SeqSet(sq) == {sq[a] : a \in 1..Len(sq)}

\* C10: set_cell(i,j) and clear_cell(i,j) apply try_increment / try_decrement
\* to exactly the in-bounds cells (i+di, j+dj), di,dj in {-1,0,1}, (di,dj) #
\* (0,0), each once: at most 3 for a corner and 5 for another edge cell, none
\* on the opposite side, no index outside the grid; and the first set_cell of
\* World::random leaves count 1 on exactly those cells.
C10_NeighbourhoodInBounds ==
  pc \in {"seeding", "running"} =>
    /\ \A p \in Positions :
         LET s == set_cell(cells, p[1], p[2]).touched
             c == clear_cell(set_cell(cells, p[1], p[2]).cells, p[1], p[2]).touched
             corner == p[1] \in {0, height - 1} /\ p[2] \in {0, width - 1}
             edge == p[1] \in {0, height - 1} \/ p[2] \in {0, width - 1}
         IN /\ SeqSet(s) = AdjacentIdx(p[1], p[2])
            /\ Len(s) = Cardinality(SeqSet(s))
            /\ c = s
            /\ SeqSet(s) \subseteq 0..(CellCount - 1)
            /\ corner => Len(s) <= 3
            /\ edge => Len(s) <= 5
    /\ (pc = "seeding" /\ drawn = 1) =>
         \A p \in sampled :
           \A q \in Positions :
             cells[Idx(q[1], q[2])] =
               IF q = p THEN 1 ELSE IF Adjacent(p, q) THEN 2 ELSE 0

\* the first sample of World::random set a corner of a board one cell high
C10_Witness ==
  /\ pc = "seeding" /\ drawn = 1 /\ height = 1 /\ width >= 3
  /\ sampled = {<<0, 0>>}
  /\ cells[0] = 1 /\ cells[1] = 2 /\ cells[2] = 0

\* the count field (bits 1-4) of a byte
CountField(c) == (c \div 2) % 16

\* the set_cell / clear_cell calls of the next_generation call that has just
\* returned (temp_cells is the grid it started from); the grids between two
\* calls are the mid-scan states
LastCalls == next_generation(temp_cells).calls

\* C11: in every state reached by World::new or World::random and any number
\* of next_generation calls, the states between two scan steps included,
\* every cell's count field is in 0..8 and nothing has panicked, so
\* neighbours() never fails.
C11_NoRangeError ==
  pc \in {"seeding", "running"} =>
    /\ ~panicked
    /\ \A x \in 0..(CellCount - 1) : CountField(cells[x]) <= NC_MAX
    /\ pc = "running" =>
         \A calls \in {LastCalls} :
           \A a \in 1..Len(calls) :
             \A r \in {calls[a].r} :
               /\ ~r.panic
               /\ \A x \in 0..(CellCount - 1) : CountField(r.cells[x]) <= NC_MAX
               /\ \A b \in 1..Len(r.before) : CountField(r.before[b]) <= NC_MAX

\* a call during which a cell held the count 8 between two scan steps
C11_Witness ==
  /\ pc = "running" /\ ~panicked
  /\ \E calls \in {LastCalls} :
       \E a \in 1..(Len(calls) - 1) :
         \E x \in 0..(CellCount - 1) : CountField(calls[a].r.cells[x]) = NC_MAX

\* C12: in any run of seeding followed by next_generation calls, clear_cell
\* never applies try_decrement to a cell whose stored count is 0.
C12_NoDecrementAtZero ==
  pc = "running" =>
    \A calls \in {LastCalls} :
      \A a \in 1..Len(calls) :
        ~calls[a].set =>
          \A r \in {calls[a].r} :
            \A b \in 1..Len(r.before) : CountField(r.before[b]) > NC_MIN

\* a clear_cell call lowered a neighbour's count from 1 to 0
C12_Witness ==
  /\ pc = "running" /\ ~panicked
  /\ \E calls \in {LastCalls} :
       \E a \in 1..Len(calls) :
         /\ ~calls[a].set
         /\ \E b \in 1..Len(calls[a].r.before) :
              /\ CountField(calls[a].r.before[b]) = 1
              /\ CountField(calls[a].r.cells[calls[a].r.touched[b]]) = 0

\* C13: in any run of seeding followed by next_generation calls, every
\* try_increment set_cell performs on an in-bounds neighbour returns true.
C13_IncrementNeverRefused ==
  /\ (pc = "seeding" /\ drawn < init_length) =>
       \A p \in Positions :
         ~AliveAt(cells, p) => set_cell(cells, p[1], p[2]).refused = <<>>
  /\ pc = "running" =>
       \A calls \in {LastCalls} :
         \A a \in 1..Len(calls) :
           calls[a].set => calls[a].r.refused = <<>>

\* C14: try_increment on a Cell whose stored count c is in 0..8 raises the
\* count by one, keeps the alive bit and returns true if c < 8; leaves the
\* Cell unchanged and returns false if c = 8.
C14_SaturatingIncrement ==
  (op = "try_increment" /\ CountField(before) <= NC_MAX) =>
    IF CountField(before) < NC_MAX
      THEN /\ CountField(cell) = CountField(before) + 1
           /\ cell % 2 = before % 2
           /\ cell = before + 2
           /\ ret = "true"
      ELSE cell = before /\ ret = "false"

\* try_increment was refused on an alive Cell with count 8
C14_Witness ==
  op = "try_increment" /\ before = 17 /\ cell = 17 /\ ret = "false"

\* C15: set_alive and set_dead leave the stored count (and every bit but bit
\* 0) as it was; the Cell is alive after set_alive and dead after set_dead.
C15_OnlyAliveBitChanges ==
  /\ op = "set_alive" =>
       /\ CountField(cell) = CountField(before)
       /\ cell \div 2 = before \div 2
       /\ is_alive(cell)
       /\ cell % 2 = 1
  /\ op = "set_dead" =>
       /\ CountField(cell) = CountField(before)
       /\ cell \div 2 = before \div 2
       /\ ~is_alive(cell)
       /\ cell % 2 = 0

\* set_dead cleared the alive bit of a Cell with count 8
C15_Witness ==
  op = "set_dead" /\ before = 17 /\ cell = 16

\* C16: a next_generation call leaves in the scratch buffer the authoritative
\* grid as it was when the call started, and each cell's alive flag after the
\* call is the rule applied to that cell's own alive flag and stored count
\* before the call, whatever births and deaths the scan applied earlier.
C16_SnapshotIsolation ==
  [][NextGeneration =>
       /\ temp_cells' = cells
       /\ \A p \in Positions :
            AliveAt(cells', p) = LifeRule(AliveAt(cells, p), StoredCount(cells, p))]_vars

\* a cell died on its snapshot count although, when the scan came to it, an
\* earlier birth had already brought its authoritative count to 2 or 3
C16_Witness ==
  /\ pc = "running" /\ ~panicked
  /\ \E calls \in {LastCalls} :
       \E b \in 1..Len(calls) :
         /\ ~calls[b].set
         /\ calls[b].pre[Idx(calls[b].i, calls[b].j)] # temp_cells[Idx(calls[b].i, calls[b].j)]
         /\ CountField(calls[b].pre[Idx(calls[b].i, calls[b].j)]) \in {2, 3}
         /\ ~AliveAt(cells, <<calls[b].i, calls[b].j>>)

\* C17: set_cell is only invoked on a cell whose authoritative alive flag is
\* dead and clear_cell only on one whose flag is alive, in World::random (so
\* that there every alive cell has raised its neighbours' counts exactly once)
\* and at every scan step of next_generation; each call toggles the flag and
\* updates each in-bounds neighbour once, and no cell is toggled twice in one
\* generation.
C17_TogglesArePaired ==
  /\ pc = "seeding" =>
       \A p \in Positions : StoredCount(cells, p) = ActualCount(cells, p)
  /\ pc = "running" =>
       \A calls \in {LastCalls} :
         /\ \A a \in 1..Len(calls) :
              \A c \in {calls[a]} :
                /\ AliveAt(c.pre, <<c.i, c.j>>) = ~c.set
                /\ AliveAt(c.r.cells, <<c.i, c.j>>) = c.set
                /\ SeqSet(c.r.touched) = AdjacentIdx(c.i, c.j)
                /\ Len(c.r.touched) = Cardinality(AdjacentIdx(c.i, c.j))
         /\ \A a, b \in 1..Len(calls) :
              a # b => <<calls[a].i, calls[a].j>> # <<calls[b].i, calls[b].j>>

\* a generation with a set_cell call and a clear_cell call
C17_Witness ==
  /\ pc = "running" /\ ~panicked
  /\ \E calls \in {LastCalls} :
       /\ \E a \in 1..Len(calls) : calls[a].set
       /\ \E a \in 1..Len(calls) : ~calls[a].set

\* the stored count of every cell of cs is at least its actual count, and
\* differs from it only where it is 8
StoredCoversActual(cs) ==
  \A p \in Positions :
    \A n \in {ActualCount(cs, p)} :
      /\ StoredCount(cs, p) >= n
      /\ StoredCount(cs, p) # n => StoredCount(cs, p) = NC_MAX

\* C18: in every reached state, the states between two scan steps included,
\* each cell's stored count is at least the number of alive in-bounds
\* neighbours in the authoritative grid, and differs from it only if it is 8.
C18_StoredCoversActual ==
  pc \in {"seeding", "running"} =>
    /\ StoredCoversActual(cells)
    /\ pc = "running" =>
         \A calls \in {LastCalls} :
           \A a \in 1..Len(calls) : StoredCoversActual(calls[a].r.cells)

\* between two scan steps a cell holds the stored count 8 with fewer than 8
\* alive neighbours
C18_Witness ==
  /\ pc = "running" /\ ~panicked
  /\ \E calls \in {LastCalls} :
       \E a \in 1..(Len(calls) - 1) :
         \E p \in Positions :
           /\ StoredCount(calls[a].r.cells, p) = NC_MAX
           /\ ActualCount(calls[a].r.cells, p) < NC_MAX

====
